---- MODULE Spec2Model ----
(***************************************************************************)
(* Knowledge Index Manager of src/knowledge_base.py: the KnowledgeBase     *)
(* facade (vector_db, loaded_files), the source folder, the index folder   *)
(* with its FAISS store and metadata.json, and the steps of                *)
(* _initialize_kb, save_index, search and reload.                          *)
(*                                                                         *)
(* The constructor / reload thread is modelled statement group by          *)
(* statement group (pc), because files can change, the process can be      *)
(* killed and (in SpecConc) a search can run between any two of them.      *)
(***************************************************************************)
EXTENDS Integers, Sequences, FiniteSets, TLC

(* ------------------------------ bounds -------------------------------- *)
\* highest modification time the environment hands out
MaxTime == 2
\* largest k a search is called with
MaxK == 2

(* ----------------------------- constants ------------------------------ *)
\* knowledge_base.py:21 and :23: the default index folder; METADATA_FILE is
\* always INDEX_FOLDER/metadata.json, whatever index_path an instance has.
INDEX_FOLDER == "kb_index"
KNOWLEDGE_FOLDER == "knowledge"
\* another value of the folder_path parameter
OTHER_FOLDER == "elsewhere"
ALT_INDEX == "alt_index"
IndexPaths == {INDEX_FOLDER, ALT_INDEX}

\* knowledge_base.py:26
SUPPORTED_EXTENSIONS == <<".txt", ".md">>

\* files that may lie in the knowledge folder, and their extensions
AllFiles == {"faq.md", "pets.txt", "logo.png"}
Ext(f) == IF f = "faq.md" THEN ".md" ELSE IF f = "pets.txt" THEN ".txt" ELSE ".png"
\* the order glob.glob lists a folder in (one fixed directory order)
DirOrder == <<"faq.md", "logo.png", "pets.txt">>

Queries == {"baggage", "pets"}

None == <<>>
Some(x) == <<x>>
Val(o) == o[1]

\* the sentinel of search (knowledge_base.py:180)
\* a returned string is a sequence of pieces <<text, n>>: a chunk text, the
\* separator or the sentinel sentence
NOT_INITIALIZED == <<<<"Knowledge base not initialized. Add documents to the 'knowledge/' folder.", 0>>>>
\* the separator of "\n\n".join (knowledge_base.py:182)
SEP == <<"\n\n", 0>>

VARIABLES
    \* ---- the source folder (self.folder_path)
    folder,        \* os.path.exists(self.folder_path)
    src,           \* function: file present in the folder |-> its mtime
    now,           \* the highest mtime handed out so far (the file system clock)
    \* ---- the index storage
    dirs,          \* [IndexPaths -> [exists, store]]: the folder and its FAISS store
    meta,          \* None, or Some(record): the content of METADATA_FILE
    \* ---- the facade instance
    index_path,    \* self.index_path
    vector_db,     \* self.vector_db: None or Some(index)
    loaded_files,  \* self.loaded_files
    pc,            \* where the constructor / reload thread stands
    op,            \* the call it is in: "init" (the constructor) or "reload"
    loc,           \* locals of _initialize_kb
    hist,          \* what the current / last call did, and the index a
                   \* reload found active (observation only)
    \* ---- a caller of search
    spc,           \* "idle", or "query" between line 179 and line 181
    sreq,          \* the request in flight / last made
    sres,          \* None or Some(result of the last search since the
                   \* instance was constructed or reloaded)
    \* ---- what only some specifications move
    par,           \* a second caller of search: [pc, req, res]
    parked,        \* None, or Some([pc, op, loc]) of a reload() thread that
                   \* is not scheduled while another reload() runs
    folder_path,   \* self.folder_path
    aside          \* [folder, src]: the content of the other source folder

fsVars == <<folder, src, now, aside>>
diskVars == <<dirs, meta>>
kbVars == <<folder_path, index_path, vector_db, loaded_files, pc, op, loc, hist, parked>>
searchVars == <<spc, sreq, sres, par>>
vars == <<folder, src, now, dirs, meta, index_path, vector_db, loaded_files,
          pc, op, loc, hist, spc, sreq, sres, par, parked, folder_path, aside>>

(* ------------------------------ helpers ------------------------------- *)
NoDecision == [rebuild |-> FALSE, reason |-> "", raises |-> FALSE]
NoLoc == [decision |-> NoDecision, docs |-> <<>>, snap |-> <<>>, at |-> 0]
\* failed: the files that failed to load in this call; made: the call
\* created the knowledge folder.  Kept only when
\* watch is set (it never changes): embeds, the embedding models loaded by
\* this process (counted up to 2); unavail, a load of the embedding model has
\* failed in this process; built, the files loaded by the latest run of
\* _get_all_documents in this process; was, what a running reload found
\* when it was called
NoHist == [err |-> FALSE, faults |-> {}, path |-> "none", ready |-> FALSE, old |-> None,
           failed |-> {}, made |-> FALSE, watch |-> FALSE,
           embeds |-> 0, unavail |-> FALSE, built |-> None, was |-> None]
NoReq == [q |-> "baggage", k |-> 1, seen |-> None, during |-> FALSE]
NoPar == [pc |-> "idle", req |-> NoReq, res |-> None]
NoAside == [folder |-> FALSE, src |-> <<>>]

NoDir == [exists |-> FALSE, store |-> None]

\* glob.glob(os.path.join(folder, "*" + ext)) over a folder content s
Glob(s, ext) == SelectSeq(DirOrder, LAMBDA f : f \in DOMAIN s /\ Ext(f) = ext)

\* the files the two loops "for ext ... for file_path in files" visit, in order
RECURSIVE GlobAll(_, _)
GlobAll(s, i) ==
    IF i > Len(SUPPORTED_EXTENSIONS) THEN <<>>
    ELSE Glob(s, SUPPORTED_EXTENSIONS[i]) \o GlobAll(s, i + 1)

\* the loop of _get_latest_modification_time over the visited files
RECURSIVE LatestOver(_, _, _)
LatestOver(s, files, latest) ==
    IF files = <<>> THEN latest
    ELSE LatestOver(s, Tail(files),
                    IF s[Head(files)] > latest THEN s[Head(files)] ELSE latest)

get_latest_modification_time(fexists, s) ==
    IF ~fexists THEN 0 ELSE LatestOver(s, GlobAll(s, 1), 0)

\* _should_rebuild_index with >= for > in line 82
should_rebuild_index_ge(ipath, d, m, fexists, s) ==
    IF ~d[ipath].exists \/ m = None
    THEN [rebuild |-> TRUE, reason |-> "Index or metadata missing", raises |-> FALSE]
    ELSE IF Val(m).kind = "unparseable"
    THEN [rebuild |-> TRUE, reason |-> "Error reading metadata", raises |-> FALSE]
    ELSE IF Val(m).kind = "nonnumeric"
    THEN [rebuild |-> FALSE, reason |-> "TypeError", raises |-> TRUE]
    ELSE LET last_build_time == IF Val(m).kind = "nokey" THEN 0
                                ELSE Val(m).last_build_time
             latest_file_time == get_latest_modification_time(fexists, s)
         IN  IF latest_file_time >= last_build_time
             THEN [rebuild |-> TRUE, reason |-> "Files modified since last build",
                   raises |-> FALSE]
             ELSE [rebuild |-> FALSE, reason |-> "Index is up to date",
                   raises |-> FALSE]

\* _should_rebuild_index comparing the number of files with file_count too
should_rebuild_index_count(ipath, d, m, fexists, s) ==
    IF ~d[ipath].exists \/ m = None
    THEN [rebuild |-> TRUE, reason |-> "Index or metadata missing", raises |-> FALSE]
    ELSE IF Val(m).kind = "unparseable"
    THEN [rebuild |-> TRUE, reason |-> "Error reading metadata", raises |-> FALSE]
    ELSE IF Val(m).kind = "nonnumeric"
    THEN [rebuild |-> FALSE, reason |-> "TypeError", raises |-> TRUE]
    ELSE LET last_build_time == IF Val(m).kind = "nokey" THEN 0
                                ELSE Val(m).last_build_time
             latest_file_time == get_latest_modification_time(fexists, s)
         IN  IF latest_file_time > last_build_time
                \/ Len(GlobAll(s, 1)) # Val(m).file_count
             THEN [rebuild |-> TRUE, reason |-> "Files modified since last build",
                   raises |-> FALSE]
             ELSE [rebuild |-> FALSE, reason |-> "Index is up to date",
                   raises |-> FALSE]

\* _should_rebuild_index, on the disk as it is when called
should_rebuild_index(ipath, d, m, fexists, s) ==
    IF ~d[ipath].exists \/ m = None
    THEN [rebuild |-> TRUE, reason |-> "Index or metadata missing", raises |-> FALSE]
    ELSE IF Val(m).kind = "unparseable"
    THEN [rebuild |-> TRUE, reason |-> "Error reading metadata", raises |-> FALSE]
    ELSE IF Val(m).kind = "nonnumeric"
    \* json.load succeeds, metadata.get returns a str / None, and the
    \* comparison of line 82, outside the try, raises TypeError
    THEN [rebuild |-> FALSE, reason |-> "TypeError", raises |-> TRUE]
    ELSE LET last_build_time == IF Val(m).kind = "nokey" THEN 0
                                ELSE Val(m).last_build_time
             latest_file_time == get_latest_modification_time(fexists, s)
         IN  IF latest_file_time > last_build_time
             THEN [rebuild |-> TRUE, reason |-> "Files modified since last build",
                   raises |-> FALSE]
             ELSE [rebuild |-> FALSE, reason |-> "Index is up to date",
                   raises |-> FALSE]

(* --------------------------- the vector index -------------------------- *)
\* CharacterTextSplitter(chunk_size=800, chunk_overlap=150): the chunks of a
\* file, as texts; pets.txt is long enough for two chunks, faq.md for one.
ChunksOf(f) == IF f = "pets.txt" THEN <<<<f, 1>>, <<f, 2>>>> ELSE <<<<f, 1>>>>

RECURSIVE split_documents(_)
split_documents(docs) ==
    IF docs = <<>> THEN <<>>
    ELSE ChunksOf(Head(docs)) \o split_documents(Tail(docs))

\* FAISS.from_documents: the index holds the chunk texts in insertion order
\* (from: the folder whose files they are, observation only)
from_documents(docs, at) ==
    [chunks |-> split_documents(docs), files |-> docs, at |-> at, from |-> folder_path]

\* the distance of a chunk text to a query (smaller is more similar)
Dist(q, c) ==
    IF q = "baggage"
    THEN (IF c[1] = "faq.md" THEN 1 ELSE 2)
    ELSE (IF c[1] = "pets.txt" THEN (IF c[2] = 2 THEN 0 ELSE 1) ELSE 3)

\* positions of idx.chunks ordered by distance, ties by insertion order
Before(q, chunks, i, j) ==
    \/ Dist(q, chunks[i]) < Dist(q, chunks[j])
    \/ Dist(q, chunks[i]) = Dist(q, chunks[j]) /\ i < j

RankOf(q, chunks, i) == 1 + Cardinality({j \in 1..Len(chunks) : Before(q, chunks, j, i)})

\* similarity_search returning the first entries in insertion order
similarity_search_unordered(idx, q, k) ==
    LET n == Len(idx.chunks)
        m == IF k < n THEN k ELSE n
    IN  [r \in 1..m |-> idx.chunks[r]]

similarity_search(idx, q, k) ==
    LET n == Len(idx.chunks)
        m == IF k < n THEN k ELSE n
    IN  [r \in 1..m |-> idx.chunks[CHOOSE i \in 1..n : RankOf(q, idx.chunks, i) = r]]

\* "\n\n".join(texts)
RECURSIVE Join(_)
Join(texts) ==
    IF texts = <<>> THEN <<>>
    ELSE IF Len(texts) = 1 THEN <<Head(texts)>>
    ELSE <<Head(texts), SEP>> \o Join(Tail(texts))

(* ------------------------------- Init ---------------------------------- *)
\* A fresh installation: no index folder yet, any content of the knowledge
\* folder (or no folder), and the constructor has run lines 38-41.
Init ==
    /\ folder \in BOOLEAN
    /\ \E S \in SUBSET AllFiles :
          /\ (~folder => S = {})
          /\ src = [f \in S |-> 1]
    /\ now = 1
    /\ dirs = [p \in IndexPaths |-> NoDir]
    /\ meta = None
    /\ index_path = INDEX_FOLDER
    /\ vector_db = None
    /\ loaded_files = <<>>
    /\ pc = "embed"
    /\ op = "init"
    /\ loc = NoLoc
    /\ hist = NoHist
    /\ spc = "idle"
    /\ sreq = NoReq
    /\ sres = None
    /\ par = NoPar
    /\ parked = None
    /\ folder_path = KNOWLEDGE_FOLDER
    /\ aside = NoAside

\* the same installation, with the watched observations kept
InitObs ==
    /\ folder \in BOOLEAN
    /\ \E S \in SUBSET AllFiles :
          /\ (~folder => S = {})
          /\ src = [f \in S |-> 1]
    /\ now = 1
    /\ dirs = [p \in IndexPaths |-> NoDir]
    /\ meta = None
    /\ index_path = INDEX_FOLDER
    /\ vector_db = None
    /\ loaded_files = <<>>
    /\ pc = "embed"
    /\ op = "init"
    /\ loc = NoLoc
    /\ hist = [NoHist EXCEPT !.watch = TRUE]
    /\ spc = "idle"
    /\ sreq = NoReq
    /\ sres = None
    /\ par = NoPar
    /\ parked = None
    /\ folder_path = KNOWLEDGE_FOLDER
    /\ aside = NoAside

\* an installation with a second source folder, holding supported files
InitFolders ==
    /\ folder \in BOOLEAN
    /\ \E S \in SUBSET AllFiles :
          /\ (~folder => S = {})
          /\ src = [f \in S |-> 1]
    /\ now = 1
    /\ dirs = [p \in IndexPaths |-> NoDir]
    /\ meta = None
    /\ index_path = INDEX_FOLDER
    /\ vector_db = None
    /\ loaded_files = <<>>
    /\ pc = "embed"
    /\ op = "init"
    /\ loc = NoLoc
    /\ hist = NoHist
    /\ spc = "idle"
    /\ sreq = NoReq
    /\ sres = None
    /\ par = NoPar
    /\ parked = None
    /\ folder_path = KNOWLEDGE_FOLDER
    /\ \E S \in SUBSET {f \in AllFiles : Ext(f) # ".png"} :
          aside = [folder |-> TRUE, src |-> [f \in S |-> 1]]

\* an installation whose instance is constructed with either index path
InitPaths ==
    /\ folder \in BOOLEAN
    /\ \E S \in SUBSET AllFiles :
          /\ (~folder => S = {})
          /\ src = [f \in S |-> 1]
    /\ now = 1
    /\ dirs = [p \in IndexPaths |-> NoDir]
    /\ meta = None
    /\ index_path \in IndexPaths
    /\ vector_db = None
    /\ loaded_files = <<>>
    /\ pc = "embed"
    /\ op = "init"
    /\ loc = NoLoc
    /\ hist = NoHist
    /\ spc = "idle"
    /\ sreq = NoReq
    /\ sres = None
    /\ par = NoPar
    /\ parked = None
    /\ folder_path = KNOWLEDGE_FOLDER
    /\ aside = NoAside

(* --------------------- leaving _initialize_kb / reload ----------------- *)
\* a normal return of the running call, whose record of events is h: the
\* facade is at rest
Return(h) ==
    /\ pc' = "idle"
    /\ loc' = NoLoc
    /\ hist' = [h EXCEPT !.old = None, !.was = None]

\* an exception leaves the running call: out of the constructor there is no
\* instance (main.py:64 fails at import); out of reload the instance stays
Raise(fault) ==
    /\ pc' = IF op = "init" THEN "failed" ELSE "idle"
    /\ loc' = NoLoc
    /\ hist' = [hist EXCEPT !.err = TRUE, !.faults = @ \cup {fault}, !.old = None,
                            !.was = None]

Faulted(fault) == [hist EXCEPT !.faults = @ \cup {fault}]

(* --------------------------- _initialize_kb ---------------------------- *)
\* lines 116-124: HuggingFaceEmbeddings(...), which may fail
InitKb_LoadEmbeddings ==
    /\ pc = "embed"
    /\ \E ok \in BOOLEAN :
          IF ok
          THEN /\ pc' = "check"
               /\ hist' = [hist EXCEPT !.embeds = IF hist.watch /\ @ < 2 THEN @ + 1 ELSE @]
               /\ UNCHANGED loc
          ELSE Return([Faulted("embed") EXCEPT !.unavail = hist.watch])
    /\ UNCHANGED <<fsVars, diskVars, folder_path, index_path, parked, vector_db, loaded_files, op, searchVars>>

\* line 127: rebuild_needed, reason = self._should_rebuild_index()
InitKb_Check ==
    /\ pc = "check"
    /\ LET d == should_rebuild_index(index_path, dirs, meta, folder, src)
       IN  IF d.raises
           THEN Raise("check")
           ELSE /\ loc' = [loc EXCEPT !.decision = d]
                /\ pc' = IF d.rebuild THEN "collect" ELSE "load"
                /\ UNCHANGED hist
    /\ UNCHANGED <<fsVars, diskVars, folder_path, index_path, parked, vector_db, loaded_files, op, searchVars>>

\* lines 129-140: FAISS.load_local, which fails on a missing or damaged store
\* and may fail on an I/O error
InitKb_LoadLocal ==
    /\ pc = "load"
    /\ \E ok \in BOOLEAN :
          IF ok /\ dirs[index_path].store # None
          THEN /\ vector_db' = dirs[index_path].store
               /\ Return([hist EXCEPT !.path = "reuse"])
          ELSE /\ pc' = "collect"
               /\ hist' = Faulted("load")
               /\ UNCHANGED <<vector_db, loc>>
    /\ UNCHANGED <<fsVars, diskVars, folder_path, index_path, parked, loaded_files, op, searchVars>>

\* _get_all_documents leaving its loops at the first file that fails to load
get_all_documents_abort(s, failed) ==
    LET all == GlobAll(s, 1)
        pos(x) == CHOOSE i \in 1..Len(all) : all[i] = x
    IN  SelectSeq(all, LAMBDA f : \A g \in failed : pos(g) > pos(f))

\* _get_all_documents: the files loaded when the set `failed` fails to load
get_all_documents(s, failed) == SelectSeq(GlobAll(s, 1), LAMBDA f : f \notin failed)

\* InitKb_Collect without the os.makedirs of line 92
InitKb_Collect_NoMkdir ==
    /\ pc = "collect"
    /\ IF ~folder
       THEN /\ Return([hist EXCEPT !.path = "rebuild", !.made = TRUE])
            /\ UNCHANGED loaded_files
       ELSE /\ \E failed \in SUBSET {f \in DOMAIN src : Ext(f) # ".png"} :
                 LET documents == get_all_documents(src, failed)
                 IN  /\ loaded_files' = loaded_files \o documents
                     /\ IF documents = <<>>
                        THEN Return([hist EXCEPT !.path = "rebuild", !.failed = failed])
                        ELSE /\ pc' = "build"
                             /\ loc' = [loc EXCEPT !.docs = documents,
                                                   !.snap = src, !.at = now]
                             /\ hist' = [hist EXCEPT !.path = "rebuild", !.failed = failed]
    /\ UNCHANGED <<fsVars, diskVars, folder_path, index_path, parked, vector_db, op, searchVars>>

\* InitKb_Collect without the return of lines 147-149
InitKb_Collect_NoReturn ==
    /\ pc = "collect"
    /\ IF ~folder
       THEN /\ folder' = TRUE
            /\ pc' = "build"
            /\ loc' = [loc EXCEPT !.docs = <<>>, !.snap = src, !.at = now]
            /\ hist' = [hist EXCEPT !.path = "rebuild"]
            /\ UNCHANGED loaded_files
       ELSE /\ \E failed \in SUBSET {f \in DOMAIN src : Ext(f) # ".png"} :
                 LET documents == get_all_documents(src, failed)
                 IN  /\ loaded_files' = loaded_files \o documents
                     /\ pc' = "build"
                     /\ loc' = [loc EXCEPT !.docs = documents, !.snap = src, !.at = now]
                     /\ hist' = [hist EXCEPT !.path = "rebuild", !.failed = failed]
            /\ UNCHANGED folder
    /\ UNCHANGED <<src, now, aside, diskVars, folder_path, index_path, parked, vector_db, op, searchVars>>

\* lines 145-149 (and 87-112): collect the documents, return when there are none
InitKb_Collect ==
    /\ pc = "collect"
    /\ IF ~folder
       THEN /\ folder' = TRUE
            /\ Return([hist EXCEPT !.path = "rebuild", !.made = TRUE,
                                    !.built = IF hist.watch THEN Some(<<>>) ELSE None])
            /\ UNCHANGED loaded_files
       ELSE /\ \E failed \in SUBSET {f \in DOMAIN src : Ext(f) # ".png"} :
                 LET documents == get_all_documents(src, failed)
                 IN  /\ loaded_files' = loaded_files \o documents
                     /\ IF documents = <<>>
                        THEN Return([hist EXCEPT !.path = "rebuild", !.failed = failed,
                                        !.built = IF hist.watch THEN Some(documents) ELSE None])
                        ELSE /\ pc' = "build"
                             /\ loc' = [loc EXCEPT !.docs = documents,
                                                   !.snap = src, !.at = now]
                             /\ hist' = [hist EXCEPT !.path = "rebuild", !.failed = failed,
                                        !.built = IF hist.watch THEN Some(documents) ELSE None]
            /\ UNCHANGED folder
    /\ UNCHANGED <<src, now, aside, diskVars, folder_path, index_path, parked, vector_db, op, searchVars>>

\* InitKb_Build binding what was indexed so far when from_documents raises
InitKb_Build_Partial ==
    /\ pc = "build"
    /\ \E ok \in BOOLEAN :
          IF ok
          THEN /\ vector_db' = Some(from_documents(loc.docs, loc.at))
               /\ pc' = "save_vec"
               /\ UNCHANGED <<loc, hist>>
          ELSE /\ Raise("build")
               /\ vector_db' = Some([from_documents(loc.docs, loc.at)
                                        EXCEPT !.chunks = Tail(@)])
    /\ UNCHANGED <<fsVars, diskVars, folder_path, index_path, parked, loaded_files, op,
                   searchVars>>

\* lines 151-156: split and FAISS.from_documents, which may raise (it does
\* for files that yield no chunk)
InitKb_Build ==
    /\ pc = "build"
    /\ \E ok \in BOOLEAN :
          IF ok
          THEN /\ vector_db' = Some(from_documents(loc.docs, loc.at))
               /\ pc' = "save_vec"
               /\ UNCHANGED <<loc, hist>>
          ELSE /\ Raise("build")
               /\ UNCHANGED vector_db
    /\ UNCHANGED <<fsVars, diskVars, folder_path, index_path, parked, loaded_files, op, searchVars>>

(* ------------------------------ save_index ----------------------------- *)
\* lines 164-165: self.vector_db.save_local(self.index_path); a failure
\* leaves the folder as it was or with a store that cannot be loaded
SaveIndex_Vectors ==
    /\ pc = "save_vec"
    /\ IF vector_db = None
       THEN /\ Return(hist)
            /\ UNCHANGED dirs
       ELSE \E outcome \in {"ok", "fail_clean", "fail_partial"} :
               CASE outcome = "ok" ->
                      /\ dirs' = [dirs EXCEPT ![index_path] =
                                     [exists |-> TRUE, store |-> vector_db]]
                      /\ pc' = "save_meta"
                      /\ UNCHANGED <<loc, hist>>
                 [] outcome = "fail_clean" ->
                      /\ Raise("save_vec")
                      /\ UNCHANGED dirs
                 [] outcome = "fail_partial" ->
                      /\ dirs' = [dirs EXCEPT ![index_path] =
                                     [exists |-> TRUE, store |-> None]]
                      /\ Raise("save_vec")
    /\ UNCHANGED <<fsVars, meta, folder_path, index_path, parked, vector_db, loaded_files, op, searchVars>>

\* the record of lines 168-171 with the time of the save for last_build_time
new_metadata_wallclock(fexists, s, files) ==
    [kind |-> "ok", last_build_time |-> now, file_count |-> Len(files)]

\* the record of lines 168-171 without the time of the newest file
new_metadata_notime(fexists, s, files) ==
    [kind |-> "ok", last_build_time |-> 0, file_count |-> Len(files)]

\* the record of lines 168-171, written at the time of the call
new_metadata(fexists, s, files) ==
    [kind |-> "ok",
     last_build_time |-> get_latest_modification_time(fexists, s),
     file_count |-> Len(files)]

\* the content of metadata.json in the folder p: METADATA_FILE is the only
\* metadata.json the program reads, writes or removes
metadata_at(p) == IF p = INDEX_FOLDER THEN meta ELSE None

\* a metadata.json that save_index did not write
BadMetadata(kind) ==
    [kind |-> kind, last_build_time |-> 0, file_count |-> 0, of |-> None,
     by |-> "", saved |-> 0, steady |-> None]

\* the record on disk, with the index whose save wrote it, the index path of
\* the instance that saved, the time of the save and, when watched, the
\* folder content if it still was the content the index was built from
\* (observation only)
Written(m, db) ==
    [kind |-> m.kind, last_build_time |-> m.last_build_time,
     file_count |-> m.file_count, of |-> db, by |-> index_path, saved |-> now,
     steady |-> IF hist.watch /\ loc.snap = src THEN Some(src) ELSE None]

\* lines 168-175: open(METADATA_FILE, 'w') and json.dump; open fails when
\* INDEX_FOLDER does not exist, and a failed write leaves a truncated file
SaveIndex_Metadata ==
    /\ pc = "save_meta"
    /\ IF ~dirs[INDEX_FOLDER].exists
       THEN /\ Raise("save_meta")
            /\ UNCHANGED meta
       ELSE \E outcome \in {"ok", "fail_open", "fail_truncated"} :
               CASE outcome = "ok" ->
                      /\ meta' = Some(Written(new_metadata(folder, src, loaded_files),
                                               vector_db))
                      /\ Return(hist)
                 [] outcome = "fail_open" ->
                      /\ Raise("save_meta")
                      /\ UNCHANGED meta
                 [] outcome = "fail_truncated" ->
                      /\ meta' = Some(BadMetadata("unparseable"))
                      /\ Raise("save_meta")
    /\ UNCHANGED <<fsVars, dirs, folder_path, index_path, parked, vector_db, loaded_files, op, searchVars>>

\* save_index() is called on an instance at rest (op "save")
SaveIndex_Call ==
    /\ pc = "idle"
    /\ op' = "save"
    /\ pc' = "save_vec"
    /\ hist' = [NoHist EXCEPT !.watch = hist.watch, !.path = "save"]
    /\ UNCHANGED <<fsVars, diskVars, folder_path, index_path, parked, vector_db, loaded_files,
                   loc, searchVars>>

(* -------------------------------- reload ------------------------------- *)
\* a shutil.rmtree that removes nothing
rmtree_nothing(d, p) == d

\* shutil.rmtree(path): the folder, its store, and metadata.json if it is
\* the default folder
rmtree(d, p) == [d EXCEPT ![p] = NoDir]

\* lines 190-192: reload() is called on an instance at rest
Reload_Rmtree ==
    /\ pc = "idle"
    /\ op' = "reload"
    /\ pc' = "rl_clear"
    /\ hist' = [NoHist EXCEPT !.ready = (vector_db # None), !.old = vector_db,
                            !.watch = hist.watch,
                            !.embeds = hist.embeds, !.unavail = hist.unavail,
                            !.built = hist.built,
                            !.was = IF hist.watch
                                    THEN Some([files |-> loaded_files, meta |-> meta,
                                               src |-> src,
                                               empty |-> (vector_db = None /\ ~hist.err
                                                          /\ hist.path = "rebuild"
                                                          /\ hist.failed = {}),
                                               again |-> (op = "reload")])
                                    ELSE None]
    /\ IF dirs[index_path].exists
       THEN /\ dirs' = rmtree(dirs, index_path)
            /\ meta' = IF index_path = INDEX_FOLDER THEN None ELSE meta
       ELSE UNCHANGED <<dirs, meta>>
    \* a search that has returned is no longer observed
    /\ IF spc = "idle"
       THEN sreq' = NoReq /\ sres' = None
       ELSE UNCHANGED <<sreq, sres>>
    /\ UNCHANGED <<fsVars, folder_path, index_path, parked, vector_db, loaded_files, loc, spc, par>>

\* lines 194-196: the two fields are reset, then _initialize_kb runs
Reload_Clear ==
    /\ pc = "rl_clear"
    /\ loaded_files' = <<>>
    /\ vector_db' = None
    /\ pc' = "embed"
    /\ UNCHANGED <<fsVars, diskVars, folder_path, index_path, parked, op, loc, hist, searchVars>>

(* ------------------------------ list_files ----------------------------- *)
\* lines 184-186
list_files == loaded_files

(* -------------------------------- search ------------------------------- *)
\* search without the test of line 179
search_unguarded(seen, cur, q, k) ==
    IF cur = None
    THEN [kind |-> "raised", value |-> <<<<"AttributeError", 0>>>>]
    ELSE [kind |-> "returned", value |-> Join(similarity_search(Val(cur), q, k))]

\* what search returns when line 179 reads `seen` and line 181 reads `cur`
search_result(seen, cur, q, k) ==
    IF seen = None
    THEN [kind |-> "returned", value |-> NOT_INITIALIZED]
    ELSE IF cur = None
    THEN [kind |-> "raised", value |-> <<<<"AttributeError", 0>>>>]
    ELSE [kind |-> "returned", value |-> Join(similarity_search(Val(cur), q, k))]

\* an instance exists: the constructor has returned
Constructed == pc = "idle" \/ op = "reload"

\* reload() is running
Reloading == op = "reload" /\ pc # "idle"

\* search(query, k) on an instance at rest: lines 179-182 in one step
Search ==
    /\ pc = "idle"
    /\ spc = "idle"
    /\ \E q \in Queries, k \in 1..MaxK :
          /\ sreq' = [q |-> q, k |-> k, seen |-> vector_db, during |-> FALSE]
          /\ sres' = Some(search_result(vector_db, vector_db, q, k))
    /\ UNCHANGED <<fsVars, diskVars, kbVars, spc, par>>

\* line 179, possibly while reload runs in another thread
Search_Check ==
    /\ Constructed
    /\ spc = "idle"
    /\ \E q \in Queries, k \in 1..MaxK :
          /\ sreq' = [q |-> q, k |-> k, seen |-> vector_db, during |-> Reloading /\ hist.ready]
          /\ IF vector_db = None
             THEN /\ sres' = Some(search_result(None, None, q, k))
                  /\ UNCHANGED spc
             ELSE /\ sres' = None
                  /\ spc' = "query"
    /\ UNCHANGED <<fsVars, diskVars, kbVars, par>>

\* Search_Query dropping the index it has read
Search_Query_Clearing ==
    /\ spc = "query"
    /\ sres' = Some(search_result(sreq.seen, vector_db, sreq.q, sreq.k))
    /\ spc' = "idle"
    /\ vector_db' = None
    /\ UNCHANGED <<fsVars, diskVars, folder_path, index_path, loaded_files, pc, op, loc,
                   hist, parked, sreq, par>>

\* lines 181-182, reading self.vector_db again
Search_Query ==
    /\ spc = "query"
    /\ sres' = Some(search_result(sreq.seen, vector_db, sreq.q, sreq.k))
    /\ spc' = "idle"
    /\ UNCHANGED <<fsVars, diskVars, kbVars, sreq, par>>

(* --------------------------- the environment --------------------------- *)
\* a file of the folder is written or touched: its mtime becomes the newest
TouchFile ==
    /\ now < MaxTime
    /\ \E f \in DOMAIN src :
          /\ src' = [src EXCEPT ![f] = now + 1]
          /\ now' = now + 1
    /\ UNCHANGED <<folder, aside, diskVars, kbVars, searchVars>>

\* a file is put into the folder
AddFile ==
    /\ folder
    /\ now < MaxTime
    /\ \E f \in AllFiles \ DOMAIN src :
          /\ src' = [g \in DOMAIN src \cup {f} |-> IF g = f THEN now + 1 ELSE src[g]]
          /\ now' = now + 1
    /\ UNCHANGED <<folder, aside, diskVars, kbVars, searchVars>>

\* a file is removed from the folder
DeleteFile ==
    /\ \E f \in DOMAIN src :
          src' = [g \in DOMAIN src \ {f} |-> src[g]]
    /\ UNCHANGED <<folder, now, aside, diskVars, kbVars, searchVars>>

\* metadata.json is damaged or replaced by something else than save_index
\* writes: not JSON, JSON without last_build_time, or a non-numeric value
CorruptMetadata ==
    /\ meta # None
    /\ \E kind \in {"unparseable", "nokey", "nonnumeric"} :
          meta' = Some(BadMetadata(kind))
    /\ UNCHANGED <<fsVars, dirs, kbVars, searchVars>>

\* lines 190-192 in a second thread: reload() is called while a reload()
\* is running, whose thread is set aside where it stands
Reload_Overlap ==
    /\ Reloading
    /\ parked = None
    /\ parked' = Some([pc |-> pc, op |-> op, loc |-> loc])
    /\ op' = "reload"
    /\ pc' = "rl_clear"
    /\ loc' = NoLoc
    /\ IF dirs[index_path].exists
       THEN /\ dirs' = rmtree(dirs, index_path)
            /\ meta' = IF index_path = INDEX_FOLDER THEN None ELSE meta
       ELSE UNCHANGED <<dirs, meta>>
    /\ UNCHANGED <<fsVars, folder_path, index_path, vector_db, loaded_files, hist, searchVars>>

\* the scheduler runs the thread set aside; the running one is set aside
\* where it stands, or is gone when its reload() has ended
Yield ==
    /\ parked # None
    /\ pc' = Val(parked).pc
    /\ op' = Val(parked).op
    /\ loc' = Val(parked).loc
    /\ parked' = IF pc = "idle" THEN None ELSE Some([pc |-> pc, op |-> op, loc |-> loc])
    /\ UNCHANGED <<fsVars, diskVars, folder_path, index_path, vector_db, loaded_files, hist,
                   searchVars>>

\* line 179 in a second calling thread; req.during: the first caller is
\* between its two lines
Par_Search_Check ==
    /\ Constructed
    /\ par.pc = "idle"
    /\ \E q \in Queries, k \in 1..MaxK :
          par' = [pc |-> IF vector_db = None THEN "idle" ELSE "query",
                  req |-> [q |-> q, k |-> k, seen |-> vector_db, during |-> (spc = "query")],
                  res |-> IF vector_db = None
                          THEN Some(search_result(None, None, q, k)) ELSE None]
    /\ UNCHANGED <<fsVars, diskVars, kbVars, spc, sreq, sres>>

\* lines 181-182 in the second calling thread
Par_Search_Query ==
    /\ par.pc = "query"
    /\ par' = [par EXCEPT !.pc = "idle",
                          !.res = Some(search_result(par.req.seen, vector_db,
                                                     par.req.q, par.req.k))]
    /\ UNCHANGED <<fsVars, diskVars, kbVars, spc, sreq, sres>>

\* the two callers start a search only on an instance at rest, and reload()
\* is called only when no search is running
Rest_Search_Check == pc = "idle" /\ Search_Check
Rest_Par_Search_Check == pc = "idle" /\ Par_Search_Check
Quiet_Reload_Rmtree == spc = "idle" /\ par.pc = "idle" /\ Reload_Rmtree

\* the process ends (at any point) and a new one runs the constructor's
\* lines 38-41; the disk stays as it is
Restart ==
    /\ vector_db' = None
    /\ loaded_files' = <<>>
    /\ pc' = "embed"
    /\ op' = "init"
    /\ loc' = NoLoc
    /\ hist' = [NoHist EXCEPT !.watch = hist.watch]
    /\ spc' = "idle"
    /\ sreq' = NoReq
    /\ sres' = None
    /\ par' = NoPar
    /\ parked' = None
    /\ UNCHANGED <<fsVars, diskVars, folder_path, index_path>>

\* the process ends and a new one constructs KnowledgeBase(index_path=p)
RestartWith ==
    /\ \E p \in IndexPaths : index_path' = p
    /\ vector_db' = None
    /\ loaded_files' = <<>>
    /\ pc' = "embed"
    /\ op' = "init"
    /\ loc' = NoLoc
    /\ hist' = [NoHist EXCEPT !.watch = hist.watch]
    /\ spc' = "idle"
    /\ sreq' = NoReq
    /\ sres' = None
    /\ par' = NoPar
    /\ parked' = None
    /\ UNCHANGED <<fsVars, diskVars, folder_path>>

\* the instance is dropped and KnowledgeBase(folder_path=<the other folder>)
\* is constructed, with the default index path
RestartElsewhere ==
    /\ folder_path' = IF folder_path = KNOWLEDGE_FOLDER THEN OTHER_FOLDER
                      ELSE KNOWLEDGE_FOLDER
    /\ folder' = aside.folder
    /\ src' = aside.src
    /\ aside' = [folder |-> folder, src |-> src]
    /\ vector_db' = None
    /\ loaded_files' = <<>>
    /\ pc' = "embed"
    /\ op' = "init"
    /\ loc' = NoLoc
    /\ hist' = [NoHist EXCEPT !.watch = hist.watch]
    /\ spc' = "idle"
    /\ sreq' = NoReq
    /\ sres' = None
    /\ par' = NoPar
    /\ parked' = None
    /\ UNCHANGED <<now, diskVars, index_path>>

(* --------------------------- specifications ---------------------------- *)
KbStep ==
    \/ InitKb_LoadEmbeddings
    \/ InitKb_Check
    \/ InitKb_LoadLocal
    \/ InitKb_Collect
    \/ InitKb_Build
    \/ SaveIndex_Vectors
    \/ SaveIndex_Metadata
    \/ Reload_Rmtree
    \/ Reload_Clear

EnvStep ==
    \/ TouchFile
    \/ AddFile
    \/ DeleteFile
    \/ CorruptMetadata
    \/ Restart

\* one instance used by one thread at a time, files changing and the process
\* restarting at any point
Next ==
    \/ KbStep
    \/ Search
    \/ EnvStep

Spec == Init /\ [][Next]_vars

\* the same instance with a second thread calling search while the first
\* is in reload; files are written and removed and the process restarts
NextConc ==
    \/ KbStep
    \/ Search_Check
    \/ Search_Query
    \/ TouchFile
    \/ DeleteFile
    \/ Restart

SpecConc == Init /\ [][NextConc]_vars

\* two threads calling search in parallel while no constructor and no
\* reload is running
NextPar ==
    \/ InitKb_LoadEmbeddings
    \/ InitKb_Check
    \/ InitKb_LoadLocal
    \/ InitKb_Collect
    \/ InitKb_Build
    \/ SaveIndex_Vectors
    \/ SaveIndex_Metadata
    \/ Quiet_Reload_Rmtree
    \/ Reload_Clear
    \/ Rest_Search_Check
    \/ Search_Query
    \/ Rest_Par_Search_Check
    \/ Par_Search_Query
    \/ Restart

SpecPar == Init /\ [][NextPar]_vars

\* the instance with save_index() called from outside as well
NextSave ==
    \/ KbStep
    \/ SaveIndex_Call
    \/ TouchFile
    \/ DeleteFile
    \/ Restart

SpecSave == Init /\ [][NextSave]_vars

\* reload() called by two threads of one process, overlapping or not
NextOverlap ==
    \/ KbStep
    \/ Reload_Overlap
    \/ Yield

SpecOverlap == Init /\ [][NextOverlap]_vars

\* instances on two source folders, one after the other, sharing the
\* default index folder
NextFolders ==
    \/ KbStep
    \/ Search
    \/ TouchFile
    \/ RestartElsewhere

SpecFolders == InitFolders /\ [][NextFolders]_vars

\* Spec with the watched observations kept
SpecObs == InitObs /\ [][Next]_vars

\* instances constructed with the default or another index path, one
\* process after the other on the same disk
NextPaths ==
    \/ KbStep
    \/ Search
    \/ TouchFile
    \/ RestartWith

SpecPaths == InitPaths /\ [][NextPaths]_vars

(* ======================================================================= *)
(*                                 claims                                  *)
(* ======================================================================= *)

\* v is the k texts of idx most similar to q (all of them when idx has fewer),
\* most similar first, with SEP between two neighbours
IsTopKJoined(v, idx, q, k) ==
    LET n == Len(idx.chunks)
        m == IF k < n THEN k ELSE n
        text(i) == v[2 * i - 1]
        chosen == {text(i) : i \in 1..m}
    IN  /\ Len(v) = 2 * m - 1
        /\ \A i \in 1..m : \E j \in 1..n : idx.chunks[j] = text(i)
        /\ \A i \in 1..(m - 1) : v[2 * i] = SEP
        /\ \A i \in 1..m : \A j \in 1..m : i < j => Dist(q, text(i)) <= Dist(q, text(j))
        /\ Cardinality(chosen) = m
        /\ \A j \in 1..n : idx.chunks[j] \notin chosen =>
              \A i \in 1..m : Dist(q, text(i)) <= Dist(q, idx.chunks[j])

\* C1: a search on an instance at rest (whatever the constructor and the
\* reloads before it did) returns and does not raise; it returns the "not
\* initialized" sentence exactly when the instance had no index, and otherwise
\* the top-k chunk texts of the instance's index joined by blank lines.
C1_SearchTotal ==
    sres # None =>
        /\ Val(sres).kind = "returned"
        /\ (sreq.seen = None <=> Val(sres).value = NOT_INITIALIZED)
        /\ (sreq.seen # None =>
               IsTopKJoined(Val(sres).value, Val(sreq.seen), sreq.q, sreq.k))

\* a search answered from the index a reload built, with k above its size
C1_Witness ==
    /\ sres # None
    /\ sreq.seen # None
    /\ op = "reload"
    /\ hist.path = "rebuild"
    /\ sreq.k > Len(Val(sreq.seen).chunks)
    /\ Val(sres).value # NOT_INITIALIZED

\* C2: a search whose line 179 runs while reload() is running on an instance
\* that had an index sees an index (the old one or the one the reload
\* built), never none, and so returns chunk texts.
C2_SearchSeesOldOrNew ==
    sreq.during =>
        /\ sreq.seen # None
        /\ sres # None =>
              /\ Val(sres).kind = "returned"
              /\ Val(sres).value # NOT_INITIALIZED

\* the newest mtime among the supported files of folder content s (0 for none)
SupportedMtimes(s) == {s[f] : f \in {g \in DOMAIN s : Ext(g) \in {".txt", ".md"}}}
MaxMtime(fexists, s) ==
    IF ~fexists \/ SupportedMtimes(s) = {} THEN 0
    ELSE CHOOSE m \in SupportedMtimes(s) : \A x \in SupportedMtimes(s) : x <= m

\* the step in which _should_rebuild_index is called and its result used
CheckStep == pc = "check" /\ pc' \notin {"check", "embed"}

IndexMissing == ~dirs[index_path].exists \/ meta = None

\* the decision table of the staleness check, for readable metadata
DecisionTable ==
    IF IndexMissing
    THEN <<TRUE, "Index or metadata missing">>
    ELSE IF MaxMtime(folder, src) > Val(meta).last_build_time
    THEN <<TRUE, "Files modified since last build">>
    ELSE <<FALSE, "Index is up to date">>

\* C3: _should_rebuild_index decides "missing" whenever the index folder or
\* metadata.json is absent; with a metadata record that save_index wrote it
\* decides "stale" iff the newest supported file is newer than
\* last_build_time, and "current" otherwise (an empty or absent folder counts
\* as 0); the rebuild path is taken exactly on a rebuild decision.
C3_DecisionTable ==
    [][ (CheckStep /\ (IndexMissing \/ Val(meta).kind = "ok")) =>
           /\ <<loc'.decision.rebuild, loc'.decision.reason>> = DecisionTable
           /\ pc' = IF DecisionTable[1] THEN "collect" ELSE "load" ]_vars

\* _should_rebuild_index has just found a file newer than a readable metadata record
C3_Witness ==
    /\ pc = "collect"
    /\ loc.decision.reason = "Files modified since last build"
    /\ meta # None
    /\ Val(meta).kind = "ok"
    /\ MaxMtime(folder, src) > Val(meta).last_build_time

\* C4: at the staleness check of a startup, when a supported file has been
\* modified after the last successful rebuild read it (even while that
\* rebuild was still running), the rebuild path is taken.
C4_ModifiedForcesRebuild ==
    [][ (/\ CheckStep
         /\ op = "init"
         /\ dirs[index_path].store # None
         /\ meta # None
         /\ Val(meta).kind = "ok"
         /\ Val(meta).of = dirs[index_path].store
         /\ \E f \in DOMAIN src :
               /\ Ext(f) \in {".txt", ".md"}
               /\ src[f] > Val(dirs[index_path].store).at)
        => pc' = "collect" ]_vars

\* C5: a save that completes a rebuild during which no source file changed
\* records as last_build_time the newest mtime among the supported files
\* present at build time.
C5_LastBuildTimeIsNewestMtime ==
    [][ (pc = "save_meta" /\ pc' = "idle" /\ ~hist'.err /\ src = loc.snap) =>
           /\ meta' # None
           /\ Val(meta').kind = "ok"
           /\ Val(meta').last_build_time = MaxMtime(folder, loc.snap) ]_vars

\* a rebuild of an older faq.md and a newer pets.txt has saved pets.txt's mtime
C5_Witness ==
    /\ pc = "idle"
    /\ hist.path = "rebuild"
    /\ ~hist.err
    /\ Len(loaded_files) = 2
    /\ DOMAIN src = AllFiles
    /\ src["faq.md"] < src["pets.txt"]
    /\ meta # None
    /\ Val(meta).kind = "ok"
    /\ Val(meta).last_build_time = src["pets.txt"]

\* C6: whenever metadata.json holds a record save_index wrote, the index
\* folder holds the vector store that record was written for.
C6_MetadataMatchesStore ==
    (meta # None /\ Val(meta).kind = "ok") =>
        /\ dirs[index_path].store # None
        /\ Val(meta).of = dirs[index_path].store

\* C7: a failure to write the vector store or metadata.json is not raised
\* to the caller: the instance is at rest with the index it built.
C7_SaveErrorNotSurfaced ==
    (hist.faults \cap {"save_vec", "save_meta"} # {}) =>
        /\ pc = "idle"
        /\ ~hist.err
        /\ vector_db # None

\* C8: a startup whose load of the persisted index failed ends without an
\* error, after the rebuild path, with an index iff a document was loaded.
C8_LoadFailureFallsBack ==
    ("load" \in hist.faults /\ op = "init" /\ pc \in {"idle", "failed"}) =>
        /\ pc = "idle"
        /\ ~hist.err
        /\ hist.path = "rebuild"
        /\ (vector_db # None <=> loaded_files # <<>>)

\* C9: with a metadata.json that is present but not a record with a numeric
\* last_build_time, the staleness check decides rebuild and does not raise.
C9_CorruptMetadataRebuilds ==
    [][ (/\ CheckStep
         /\ dirs[index_path].exists
         /\ meta # None
         /\ Val(meta).kind # "ok")
        => (pc' = "collect" /\ loc'.decision.rebuild) ]_vars

\* C10: a reload() called on an instance with an index has, when it
\* completes, run the rebuild path and raised nothing, and left an index iff
\* it loaded a document.
C10_ReloadRebuilds ==
    (op = "reload" /\ pc = "idle" /\ hist.ready) =>
        /\ hist.path = "rebuild"
        /\ ~hist.err
        /\ (vector_db # None <=> loaded_files # <<>>)

\* C11: once a load of the embedding model has failed, every later search of
\* this process returns the "not initialized" sentence, reload() or not.
C11_UnavailableIsTerminal ==
    (hist.unavail /\ sres # None) => Val(sres).value = NOT_INITIALIZED

\* the constructor comes to its end, by a return or by an exception
InitDone == op = "init" /\ pc \notin {"idle", "failed"} /\ pc' \in {"idle", "failed"}

\* the folder content s has no file of a supported extension
NoSupported(s) == GlobAll(s, 1) = <<>>

\* C12 (as stated): a startup on a folder without supported files, which
\* therefore loads no file, ends without an active index, whatever index and
\* metadata are on disk.
C12_EmptyFolderEndsEmpty ==
    [][(InitDone /\ NoSupported(src) /\ loaded_files' = <<>>) => vector_db' = None]_vars

\* C12 (amended): a startup on a folder without supported files builds nothing.
\* When _initialize_kb collects from such a folder the constructor returns
\* with no active index and the disk untouched; the startup ends with an
\* active index only by loading the cached one, after the decision
\* "Index is up to date" (an empty folder is never newer than a metadata record).
C12_EmptyFolderBuildsNothing ==
    [][/\ (pc = "collect" /\ op = "init" /\ NoSupported(src)
              /\ pc' \notin {"collect", "embed"})
            => /\ pc' = "idle" /\ ~hist'.err
               /\ vector_db' = None /\ loaded_files' = <<>>
               /\ UNCHANGED diskVars
       /\ (InitDone /\ NoSupported(src) /\ loaded_files' = <<>> /\ vector_db' # None)
            => /\ pc = "load" /\ pc' = "idle"
               /\ loc.decision.reason = "Index is up to date"
               /\ vector_db' = dirs[index_path].store]_vars

\* a startup found a damaged metadata record beside a cached index and an
\* empty folder, took the rebuild path and ended without an index: search
\* answers "not initialized"
C12_Witness ==
    /\ pc = "idle" /\ op = "init" /\ hist.path = "rebuild" /\ hist.failed = {}
    /\ folder /\ NoSupported(src)
    /\ dirs[index_path].store # None /\ meta # None
    /\ vector_db = None
    /\ sres # None /\ Val(sres).value = NOT_INITIALIZED

\* C13: on an instance at rest list_files returns the files loaded by the
\* latest rebuild of the instance, and nothing when the latest
\* initialization reused the cached index.
C13_ListFilesIsLastRebuild ==
    pc = "idle" =>
        list_files = (IF hist.path = "reuse" \/ hist.built = None
                      THEN <<>> ELSE Val(hist.built))

\* the disk holds what a rebuild and a successful save_index left: the store
\* and the metadata record written with it
SavedOnDisk ==
    /\ meta # None /\ Val(meta).kind = "ok"
    /\ dirs[index_path].store # None
    /\ Val(meta).of = dirs[index_path].store

\* no file of the folder was written or added since that save
NoChangeSinceSave == now = Val(meta).saved

\* C14: after a rebuild and a successful save, a restart with no source-file
\* change decides "reuse" once the embedding model is loaded, and when the
\* load succeeds it returns Ready without collecting or writing anything,
\* with an index that answers every query and k as the saved index did.
C14_RestartReuses ==
    [][/\ (pc = "check" /\ op = "init" /\ SavedOnDisk /\ NoChangeSinceSave
              /\ pc' \notin {"check", "embed"})
            => /\ pc' = "load"
               /\ loc'.decision.reason = "Index is up to date"
       /\ (pc = "load" /\ op = "init" /\ SavedOnDisk /\ NoChangeSinceSave
              /\ pc' = "idle")
            => /\ vector_db' # None /\ ~hist'.err /\ hist'.path = "reuse"
               /\ loaded_files' = <<>>
               /\ UNCHANGED <<fsVars, diskVars>>
               /\ \A q \in Queries, k \in 1..MaxK :
                     search_result(vector_db', vector_db', q, k)
                        = search_result(Val(meta).of, Val(meta).of, q, k)]_vars

\* a restarted process has reused the index saved before, nothing in the
\* folder changed meanwhile, and a search was answered from it
C14_Witness ==
    /\ pc = "idle" /\ op = "init" /\ hist.path = "reuse" /\ hist.faults = {}
    /\ SavedOnDisk /\ NoChangeSinceSave
    /\ vector_db = Val(meta).of
    /\ Len(Val(vector_db).chunks) > 1
    /\ sres # None /\ sreq.k = 2
    /\ Val(sres).value = Join(similarity_search(Val(Val(meta).of), sreq.q, sreq.k))

\* a reload() comes to its end, by a return or by an exception
ReloadDone == op = "reload" /\ pc # "idle" /\ pc' = "idle"

\* the running reload() was called right after another reload() that built
\* and saved an index, and the folder content has not changed since that
\* first reload read it
SecondReloadUnchanged ==
    /\ hist.was # None /\ Val(hist.was).again
    /\ hist.old # None
    /\ Val(hist.was).meta # None
    /\ Val(Val(hist.was).meta).kind = "ok"
    /\ Val(Val(hist.was).meta).of = hist.old
    /\ Val(Val(hist.was).meta).steady = Some(Val(hist.was).src)
    /\ src = Val(hist.was).src
    /\ now = Val(hist.old).at

\* C15: a second reload() with no source-file change leaves what the first
\* left: an active index, the same list_files, the same metadata record on
\* disk, and the same answer to every query and k.
C15_ReloadIdempotent ==
    [][(ReloadDone /\ SecondReloadUnchanged)
          => /\ vector_db' # None /\ ~hist'.err
             /\ loaded_files' = Val(hist.was).files
             /\ meta' # None
             /\ Val(meta').kind = "ok"
             /\ Val(meta').last_build_time = Val(Val(hist.was).meta).last_build_time
             /\ Val(meta').file_count = Val(Val(hist.was).meta).file_count
             /\ \A q \in Queries, k \in 1..MaxK :
                   search_result(vector_db', vector_db', q, k)
                      = search_result(hist.old, hist.old, q, k)]_vars

\* C16: a process loads the embedding model at most once, whatever startup,
\* searches and reloads it runs.
C16_EmbeddingsLoadedOnce == hist.embeds <= 1

\* C17: whatever index path the instance was constructed with, a successful
\* save_index leaves the metadata record of the saved index in that path,
\* _should_rebuild_index finds no metadata when that path holds none, and
\* the rmtree of reload() leaves no metadata record of that path behind.
C17_MetadataInIndexPath ==
    [][/\ (pc = "save_meta" /\ pc' = "idle" /\ ~hist'.err)
            => /\ metadata_at(index_path)' # None
               /\ Val(metadata_at(index_path)').of = vector_db'
       /\ (CheckStep /\ metadata_at(index_path) = None)
            => /\ pc' = "collect"
               /\ loc'.decision.reason = "Index or metadata missing"
       /\ (pc = "idle" /\ pc' = "rl_clear")
            => \A p \in IndexPaths :
                  metadata_at(p)' # None => Val(metadata_at(p)').by # index_path]_vars

\* _get_all_documents has run (lines 145-149 of _initialize_kb)
CollectStep == pc = "collect" /\ pc' \notin {"collect", "embed"}

\* the supported files of the folder content s
Supported(s) == {f \in DOMAIN s : \E i \in 1..Len(SUPPORTED_EXTENSIONS) :
                                     Ext(f) = SUPPORTED_EXTENSIONS[i]}

\* C18: whichever supported files fail to load, _get_all_documents raises
\* nothing; list_files then holds, once each, exactly the supported files
\* that did not fail; these are the documents the rebuild goes on with and
\* the index it builds is made of them; the call returns without an index
\* at this point only when no file is left.
C18_FailedFilesAreSkipped ==
    [][/\ (CollectStep /\ folder)
            => LET remaining == Supported(src) \ hist'.failed
               IN  /\ hist'.failed \subseteq Supported(src)
                   /\ ~hist'.err
                   /\ {loaded_files'[i] : i \in 1..Len(loaded_files')} = remaining
                   /\ Len(loaded_files') = Cardinality(remaining)
                   /\ IF remaining = {}
                      THEN pc' = "idle" /\ vector_db' = None
                      ELSE pc' = "build" /\ loc'.docs = loaded_files'
       /\ (pc = "build" /\ pc' = "save_vec")
            => /\ Val(vector_db').files = loaded_files
               /\ Val(vector_db').chunks = split_documents(loaded_files)]_vars

\* pets.txt failed to load, faq.md did not: the rebuild went on with
\* faq.md alone and the instance is Ready
C18_Witness ==
    /\ pc = "idle" /\ ~hist.err /\ hist.path = "rebuild"
    /\ hist.failed = {"pets.txt"}
    /\ {"pets.txt", "faq.md"} \subseteq DOMAIN src
    /\ loaded_files = <<"faq.md">>
    /\ vector_db # None /\ Val(vector_db).files = <<"faq.md">>

\* C19: when _get_all_documents runs and the knowledge folder does not
\* exist, the folder is created empty, nothing is loaded and nothing raised,
\* and the call returns with no active index and the disk of the index as
\* it was.
C19_MissingFolderIsCreated ==
    [][(CollectStep /\ ~folder)
          => /\ folder' /\ src' = src /\ DOMAIN src' = {}
             /\ pc' = "idle" /\ ~hist'.err
             /\ vector_db' = None /\ loaded_files' = <<>>
             /\ UNCHANGED diskVars]_vars

\* the constructor found no knowledge folder, created it and returned
\* with no index; nothing is in the index folder and search answers
\* "not initialized"
C19_Witness ==
    /\ pc = "idle" /\ op = "init" /\ hist.made /\ ~hist.err
    /\ folder /\ DOMAIN src = {}
    /\ vector_db = None /\ loaded_files = <<>>
    /\ ~dirs[index_path].exists /\ meta = None
    /\ sres # None /\ Val(sres).value = NOT_INITIALIZED

\* the running reload() was called on an Empty facade (the last call had
\* found no supported file), the folder holds a supported file, has been
\* the same since the call, and no file has failed to load
ReloadFromEmptyWithFile ==
    /\ hist.was # None /\ Val(hist.was).empty
    /\ Supported(src) # {}
    /\ src = Val(hist.was).src
    /\ hist'.failed = {}

\* C20: a reload() called on an Empty facade whose folder now holds a
\* loadable supported file ends Ready: search answers with texts, and the
\* index and its metadata record are on disk.
C20_ReloadFromEmptyEndsReady ==
    [][(ReloadDone /\ ReloadFromEmptyWithFile)
          => /\ vector_db' # None /\ ~hist'.err
             /\ \A q \in Queries, k \in 1..MaxK :
                   search_result(vector_db', vector_db', q, k).value # NOT_INITIALIZED
             /\ dirs'[index_path].store = vector_db'
             /\ meta' # None /\ Val(meta').kind = "ok" /\ Val(meta').of = vector_db']_vars

\* a step of a search, in either calling thread
SearchStep ==
    Search \/ Search_Check \/ Search_Query \/ Par_Search_Check \/ Par_Search_Query

\* C21: no step of a search changes the active index, the list of loaded
\* files, the index folders or the metadata; and of two searches running in
\* parallel while no constructor or reload runs, each returns, without an
\* error, what it returns when run alone on the instance.
C21_SearchIsReadOnly ==
    [][/\ SearchStep => UNCHANGED <<vector_db, loaded_files, dirs, meta, fsVars>>
       /\ (Search_Check \/ Search_Query) /\ sres' # None
            => /\ Val(sres') = search_result(vector_db, vector_db, sreq'.q, sreq'.k)
               /\ Val(sres').kind = "returned"
       /\ (Par_Search_Check \/ Par_Search_Query) /\ par'.res # None
            => /\ Val(par'.res) = search_result(vector_db, vector_db, par'.req.q, par'.req.k)
               /\ Val(par'.res).kind = "returned"]_vars

\* both callers were between line 179 and line 181 at the same time on a
\* Ready instance, and both have their texts
C21_Witness ==
    /\ pc = "idle" /\ vector_db # None
    /\ spc = "idle" /\ sres # None /\ Val(sres).value # NOT_INITIALIZED
    /\ par.pc = "idle" /\ par.res # None /\ par.req.during
    /\ Val(par.res).value # NOT_INITIALIZED
    /\ par.req.q # sreq.q

\* the index o, if there is one, holds every chunk of the files it was built from
WholeIndex(o) == o # None => Val(o).chunks = split_documents(Val(o).files)

\* C22: when FAISS.from_documents fails, in the constructor or in reload(),
\* the call ends with no active index and the index folders and the metadata
\* as they were; and every index that is active, stored or recorded in the
\* metadata holds all the chunks of its files.
C22_NoPartialIndex ==
    [][/\ (pc = "build" /\ pc' \notin {"build", "save_vec", "embed"})
            => /\ hist'.err /\ pc' \in {"idle", "failed"}
               /\ vector_db' = None
               /\ UNCHANGED diskVars
       /\ WholeIndex(vector_db')
       /\ \A p \in IndexPaths : WholeIndex(dirs'[p].store)
       /\ meta' # None => WholeIndex(Val(meta').of)]_vars

\* the build of a reload() failed: the instance has loaded its files but has
\* no index, and nothing is on disk
C22_Witness ==
    /\ pc = "idle" /\ op = "reload" /\ "build" \in hist.faults
    /\ loaded_files # <<>>
    /\ vector_db = None
    /\ ~dirs[index_path].exists /\ meta = None

\* C23: the last search of a Ready instance at rest returned min(k, n) texts
\* of the n entries of the active index, each a different entry, separated
\* by blank lines, nearest to the query first and none farther than an entry
\* left out; with k >= n every entry is returned exactly once.
C23_TopKOfReady ==
    (pc = "idle" /\ spc = "idle" /\ vector_db # None /\ sres # None) =>
        LET chunks == Val(vector_db).chunks
            n == Len(chunks)
            v == Val(sres).value
            m == (Len(v) + 1) \div 2
            at(i) == CHOOSE j \in 1..n : chunks[j] = v[2 * i - 1]
        IN  /\ n >= 1
            /\ Len(v) = 2 * m - 1
            /\ m = (IF sreq.k < n THEN sreq.k ELSE n)
            /\ \A i \in 1..(m - 1) : v[2 * i] = SEP
            /\ \A i \in 1..m : \E j \in 1..n : chunks[j] = v[2 * i - 1]
            /\ \A i, j \in 1..m : i # j => at(i) # at(j)
            /\ \A i \in 1..(m - 1) : Dist(sreq.q, chunks[at(i)]) <= Dist(sreq.q, chunks[at(i + 1)])
            /\ \A j \in 1..n : (\A i \in 1..m : at(i) # j) =>
                  Dist(sreq.q, chunks[at(m)]) <= Dist(sreq.q, chunks[j])
            /\ sreq.k >= n =>
                  \A j \in 1..n : Cardinality({i \in 1..m : at(i) = j}) = 1

\* a Ready instance holding three chunks answered "pets" with k = 2: the
\* second chunk of pets.txt, a blank line, the first chunk of pets.txt
C23_Witness ==
    /\ pc = "idle" /\ spc = "idle" /\ vector_db # None
    /\ Len(Val(vector_db).chunks) = 3
    /\ sres # None /\ sreq.q = "pets" /\ sreq.k = 2
    /\ Val(sres).value = <<<<"pets.txt", 2>>, SEP, <<"pets.txt", 1>>>>

\* the files whose chunks are in the saved index and that are no longer in
\* the folder
DeletedSinceBuild ==
    {f \in {Val(Val(meta).of).files[i] : i \in 1..Len(Val(Val(meta).of).files)} :
        f \notin DOMAIN src}

\* C24: after a rebuild and a successful save, with a file of the index
\* deleted and no file written or added, the next startup decides "Index is
\* up to date", and when the cached index loads it is the active index, with
\* the deleted file's chunks in it and in its answers.
C24_DeletionIsNotStaleness ==
    [][/\ (pc = "check" /\ op = "init" /\ SavedOnDisk /\ NoChangeSinceSave
              /\ DeletedSinceBuild # {} /\ pc' \notin {"check", "embed"})
            => /\ pc' = "load"
               /\ ~loc'.decision.rebuild
       /\ (pc = "load" /\ op = "init" /\ SavedOnDisk /\ NoChangeSinceSave
              /\ DeletedSinceBuild # {} /\ pc' = "idle")
            => /\ vector_db' = Val(meta).of
               /\ \A f \in DeletedSinceBuild :
                     /\ \E i \in 1..Len(Val(vector_db').chunks) :
                           Val(vector_db').chunks[i][1] = f
                     /\ \E q \in Queries :
                           LET v == search_result(vector_db', vector_db', q, MaxK).value
                           IN  \E i \in 1..Len(v) : v[i][1] = f]_vars

\* faq.md was deleted after the build; the restarted process reused the
\* cached index and answered "baggage" with the text of faq.md
C24_Witness ==
    /\ pc = "idle" /\ op = "init" /\ hist.path = "reuse"
    /\ SavedOnDisk /\ NoChangeSinceSave
    /\ "faq.md" \in DeletedSinceBuild
    /\ vector_db = Val(meta).of
    /\ sres # None /\ sreq.q = "baggage"
    /\ Val(sres).value[1] = <<"faq.md", 1>>

\* C25: an instance at rest with an active index has an index built from
\* the files of its own source folder.
C25_IndexOfOwnFolder ==
    (pc = "idle" /\ vector_db # None) => Val(vector_db).from = folder_path

\* C26: list_files never holds the same name twice.
C26_ListFilesHasNoDuplicate ==
    \A i, j \in 1..Len(list_files) : i # j => list_files[i] # list_files[j]

\* C27: a metadata record written by save_index has for file_count the
\* number of files whose chunks are in the index saved with it.
C27_FileCountIsFilesOfStore ==
    (meta # None /\ Val(meta).kind = "ok" /\ Val(meta).of # None) =>
        Val(meta).file_count = Len(Val(Val(meta).of).files)

\* the instance is at rest after a reload() that returned without an index
\* because the folder gave no document (not because the embedding model
\* failed to load, and not by an exception)
EmptyAfterReload ==
    /\ op = "reload" /\ pc = "idle" /\ vector_db = None
    /\ ~hist.err /\ "embed" \notin hist.faults

\* C28: when reload() returns with no active index, the index folder of the
\* instance does not exist and holds neither a store nor a metadata record;
\* it is still so when the process is replaced, and the startup that finds
\* it so with the same index path decides to rebuild for "Index or metadata
\* missing".
C28_EmptyReloadLeavesNoCache ==
    [][/\ (ReloadDone /\ EmptyAfterReload')
            => /\ ~dirs'[index_path].exists
               /\ dirs'[index_path].store = None
               /\ metadata_at(index_path)' = None
       /\ (EmptyAfterReload /\ op' = "init" /\ index_path' = index_path)
            => /\ ~dirs'[index_path].exists
               /\ metadata_at(index_path)' = None
               /\ should_rebuild_index(index_path, dirs', meta', folder', src').reason
                      = "Index or metadata missing"
       /\ (CheckStep /\ op = "init" /\ ~dirs[index_path].exists)
            => /\ pc' = "collect"
               /\ loc'.decision.reason = "Index or metadata missing"]_vars

\* a Ready instance whose files were removed was reloaded: it is Empty and
\* the index folder with its metadata is gone
C28_Witness ==
    /\ EmptyAfterReload /\ hist.ready /\ hist.path = "rebuild"
    /\ NoSupported(src)
    /\ ~dirs[index_path].exists /\ meta = None

====
